---- MODULE Spec2Model ----
(***************************************************************************)
(* Visual Product Matcher: the catalog embedding cache, the bounded-       *)
(* concurrency fill (computeCatalogEmbeddings) and the query life cycle of *)
(* the Home component of src/src/App.tsx.                                  *)
(*                                                                         *)
(* Conventions.  A Float32Array is a sequence of 32-bit words.  A slot     *)
(* that may be null is Null (the empty tuple) or Some(v) (a one-element    *)
(* tuple).  Catalog item i of PRODUCTS (0-based in the source) is index    *)
(* i+1 here; the item's id is its index.  Published progress is kept as    *)
(* its numerator: the source publishes done / PRODUCTS.length.             *)
(***************************************************************************)
EXTENDS Integers, Sequences, FiniteSets, TLC

\* ---------------------------------------------------------------- bounds
NItems == 4
MaxFills == 2
MaxQueries == 2
MaxFaults == 1
MaxEmbedCalls == 5

\* ------------------------------------------------------ program constants
EMBED_CONCURRENCY == 3

Idx == 1..NItems
Fills == 1..MaxFills

Null == << >>
Some(v) == << v >>
Has(slot) == slot # Null
Val(slot) == slot[1]

\* ------------------------------------------------------------ VectorCodec
\* the bytes of each 32-bit word, most significant first
BytesOfBigEndian(f) ==
  [j \in 1..(4 * Len(f)) |->
     LET w == f[((j - 1) \div 4) + 1]
         k == (j - 1) % 4
     IN  CASE k = 3 -> w % 256
           [] k = 2 -> (w \div 256) % 256
           [] k = 1 -> (w \div 65536) % 256
           [] OTHER -> (w \div 16777216) % 256]

\* new Uint8Array(f.buffer): the little-endian bytes of each 32-bit word
BytesOf(f) ==
  [j \in 1..(4 * Len(f)) |->
     LET w == f[((j - 1) \div 4) + 1]
         k == (j - 1) % 4
     IN  CASE k = 0 -> w % 256
           [] k = 1 -> (w \div 256) % 256
           [] k = 2 -> (w \div 65536) % 256
           [] OTHER -> (w \div 16777216) % 256]

\* btoa: base64 alphabet positions 0..63, and 64 for the padding '='
btoa(b) ==
  LET n == Len(b)
      B(i) == IF i <= n THEN b[i] ELSE 0
  IN  [j \in 1..(4 * ((n + 2) \div 3)) |->
         LET g == (j - 1) \div 4
             k == (j - 1) % 4
             b0 == B(3 * g + 1)
             b1 == B(3 * g + 2)
             b2 == B(3 * g + 3)
         IN  CASE k = 0 -> b0 \div 4
               [] k = 1 -> (b0 % 4) * 16 + (b1 \div 16)
               [] k = 2 -> IF 3 * g + 2 > n THEN 64 ELSE (b1 % 16) * 4 + (b2 \div 64)
               [] OTHER -> IF 3 * g + 3 > n THEN 64 ELSE b2 % 64]

\* atob first drops one or two trailing '=' of a string whose length is a
\* multiple of 4
Unpadded(s) ==
  LET m == Len(s)
  IN  IF m > 0 /\ m % 4 = 0 /\ s[m] = 64
      THEN IF s[m - 1] = 64 THEN SubSeq(s, 1, m - 2) ELSE SubSeq(s, 1, m - 1)
      ELSE s

\* atob throws an InvalidCharacterError if the remaining length is 1 modulo
\* 4 or a character outside the alphabet (here: another '=') remains
atobThrows(s) ==
  LET d == Unpadded(s)
  IN  Len(d) % 4 = 1 \/ \E j \in 1..Len(d) : d[j] = 64

\* atob of a string it accepts
atob(s) ==
  LET d == Unpadded(s)
      m == Len(d)
      C(j) == IF j > m THEN 0 ELSE d[j]
  IN  [i \in 1..((3 * m) \div 4) |->
         LET g == (i - 1) \div 3
             k == (i - 1) % 3
             c0 == C(4 * g + 1)
             c1 == C(4 * g + 2)
             c2 == C(4 * g + 3)
             c3 == C(4 * g + 4)
         IN  CASE k = 0 -> c0 * 4 + (c1 \div 16)
               [] k = 1 -> (c1 % 16) * 16 + (c2 \div 4)
               [] OTHER -> (c2 % 4) * 64 + c3]

encodeVec(f) == btoa(BytesOf(f))

\* a Float32Array constructor that drops the odd bytes instead of throwing
decodeTruncates(s) == FALSE

\* new Float32Array(arr.buffer) throws a RangeError unless the byte length
\* is a multiple of 4
decodeThrows(s) == Len(atob(s)) % 4 # 0

decodeVec(s) ==
  LET arr == atob(s)
  IN  [j \in 1..(Len(arr) \div 4) |->
         arr[4 * j - 3] + 256 * arr[4 * j - 2] + 65536 * arr[4 * j - 1]
           + 16777216 * arr[4 * j]]

\* ------------------------------------------------------------- CacheStore
\* A localStorage entry is Null (no item under the key) or Some(record),
\* the record being the parsed JSON object: a function from the ids that
\* have a property to its value.
NoTables == [e \in Idx |-> Null]
NoLabels == [e \in Idx |-> << >>]

\* the vector document keyed by the 0-based position instead of the id
SavedVectorsByPosition(E) ==
  [k \in {j - 1 : j \in {i \in Idx : Has(E[i])}} |-> encodeVec(Val(E[k + 1]))]

\* the two JSON documents saveCatalogCache builds
SavedVectors(E) ==
  [id \in {j \in Idx : Has(E[j])} |-> encodeVec(Val(E[id]))]
SavedLabels(L) ==
  [id \in {j \in Idx : Len(L[j]) > 0} |-> L[id]]

\* saveCatalogCache: two setItem calls; res tells which of them the storage
\* rejects ("ok", "rejectVectors", "rejectLabels").  A rejected setItem
\* throws and nothing after it runs.
saveCatalogCache(st, E, L, res) ==
  CASE res = "ok" -> [vectors |-> Some(SavedVectors(E)), labels |-> Some(SavedLabels(L))]
    [] res = "rejectLabels" -> [st EXCEPT !.vectors = Some(SavedVectors(E))]
    [] OTHER -> st
saveThrows(res) == res # "ok"

StorageResults == {"ok", "rejectVectors", "rejectLabels"}

\* a stored text that is not a JSON document; JSON.parse throws on it
NotJSON == [x \in {0} |-> 0]
parseThrows(entry) == Has(entry) /\ Val(entry) = NotJSON

\* the body of loadCatalogCache's try block throws: JSON.parse of either
\* entry, or atob / new Float32Array of a vector string it decodes
loadThrows(st) ==
  \/ parseThrows(st.vectors)
  \/ parseThrows(st.labels)
  \/ LET ve == IF Has(st.vectors) THEN Val(st.vectors) ELSE << >>
     IN  \E id \in Idx :
           /\ id \in DOMAIN ve
           /\ Len(ve[id]) > 0
           /\ (atobThrows(ve[id]) \/ decodeThrows(ve[id]))

\* loadCatalogCache: Null, or Some of the tables.  `if (ve[id])` skips an
\* absent property and an empty string; the catch block returns null.
loadCatalogCache(st) ==
  LET ve == IF Has(st.vectors) THEN Val(st.vectors) ELSE << >>
      la == IF Has(st.labels) THEN Val(st.labels) ELSE << >>
      present == {id \in Idx : id \in DOMAIN ve /\ Len(ve[id]) > 0}
      E == [id \in Idx |-> IF id \in present THEN Some(decodeVec(ve[id])) ELSE Null]
      L == [id \in Idx |-> IF id \in DOMAIN la THEN la[id] ELSE << >>]
  IN  IF loadThrows(st) THEN Null
      ELSE IF present # {} THEN Some([embeds |-> E, labels |-> L])
      ELSE Null

\* --------------------------------------------------- RemoteCatalogLoader
\* A fetch of a bundle: status "reject" (fetch rejects), "notOk" (a response
\* whose ok is false), "malformed" (json() rejects) or "ok"; body is the
\* parsed JSON of an "ok" response, a function from the ids that have a
\* property to its value.  The ids are the positions, so an array body
\* reads the same.
Response(status, body) == [status |-> status, body |-> body]

\* loadPrecomputedFiles: Null, or Some of the tables
loadPrecomputedFiles(eRes, lRes) ==
  IF eRes.status = "reject" \/ lRes.status = "reject" THEN Null
  ELSE IF eRes.status = "notOk" \/ lRes.status = "notOk" THEN Null
  ELSE IF eRes.status = "malformed" \/ lRes.status = "malformed" THEN Null
  ELSE Some([embeds |-> [id \in Idx |-> IF id \in DOMAIN eRes.body
                                         THEN Some(eRes.body[id]) ELSE Null],
             labels |-> [id \in Idx |-> IF id \in DOMAIN lRes.body
                                         THEN lRes.body[id] ELSE << >>]])

\* ---------------------------------------------------------- collaborators
\* Images: catalog item idx has image idx, the k-th supplied query image
\* is image NItems + k.  The two embedding models return vectors of
\* different dimensionality; both are functions of the image.
clipImageEmbedding(img) == << img >>
imageToEmbedding(img) == << img, img >>
classifyImage(img) ==
  CASE img % 3 = 1 -> << "backpack" >>
    [] img % 3 = 2 -> << "laptop" >>
    [] OTHER -> << >>

\* robustEmbed: CLIP, else the MobileNet fallback, else it throws
EmbedResults == {"clip", "fallback", "fail"}
robustEmbed(img, res) ==
  IF res = "clip" THEN clipImageEmbedding(img) ELSE imageToEmbedding(img)

QueryImage(k) == NItems + k

\* ------------------------------------------------------------------ state
VARIABLES
  storage,          \* localStorage: [vectors, labels], KEY_VECTORS / KEY_LABELS
  embeds,           \* useState embeds
  labels,           \* useState labels
  alias,            \* the fill whose out/outLabels arrays ARE the arrays held in
                    \* embeds/labels (setEmbeds(out) stores the reference); 0 if none
  statusCatalog,    \* "idle" | "processing" | "ready"
  progress,         \* numerator of the published progress (over NItems)
  mounted,          \* the startup effect has run
  remote,           \* loadPrecomputedFiles: "none" | "pending" | "done"
  fill,             \* one record per invocation of computeCatalogEmbeddings
  fillCount,        \* invocations so far
  faults,           \* collaborator calls that have failed so far (bounded by MaxFaults)
  cleared,          \* history: cache cleared and no fill started later has finished
  displayQueryUrl,  \* Null or Some(k): the blob URL of the k-th supplied image
  queryImgLoaded,
  queryEmbed,       \* Null or Some(vector)
  queryLabels,
  queryLabelsOf,    \* history: the supplied image queryLabels was derived from
  statusQuery,      \* "idle" | "processing" | "ready" | "error"
  error,            \* Null or Some(message kind)
  lastBlobURL,      \* the ref: Null or Some(k)
  supplied,         \* number of images supplied so far (onFile / onUrl calls)
  urlFetch,         \* onUrl calls still awaiting fetchToObjectURL
  imgEl,            \* the preview <img>: "none" | "loading" | "loaded" | "error"
  run,              \* per supplied image, the query effect's run(): "none" |
                    \* "embed" | "classify" | "done" | "failed"
  fetched,          \* history, kept under SpecStartup: Null, or Some of the
                    \* two responses loadPrecomputedFiles received
  minScore,         \* useState minScore, in thousandths
  topK,             \* useState topK
  category,         \* useState category
  preferQueryClass, \* useState preferQueryClass
  onlySameClass     \* useState onlySameClass

catalogVars == << storage, embeds, labels, alias, statusCatalog, progress,
                  mounted, remote, fill, fillCount, faults, cleared, fetched >>
queryVars == << displayQueryUrl, queryImgLoaded, queryEmbed, queryLabels,
                queryLabelsOf, statusQuery, error, lastBlobURL, supplied,
                urlFetch, imgEl, run >>
filterVars == << minScore, topK, category, preferQueryClass, onlySameClass >>
vars == << storage, embeds, labels, alias, statusCatalog, progress,
           mounted, remote, fill, fillCount, faults, cleared,
           displayQueryUrl, queryImgLoaded, queryEmbed, queryLabels,
           queryLabelsOf, statusQuery, error, lastBlobURL, supplied,
           urlFetch, imgEl, run, fetched,
           minScore, topK, category, preferQueryClass, onlySameClass >>

\* The environment: a collaborator call answers normally, or fails while
\* fewer than MaxFaults calls have failed so far.
MayFail == faults < MaxFaults
Answers(all, normal) == IF MayFail THEN all ELSE {normal}
Faulted(res, normal) == IF res = normal THEN faults ELSE faults + 1

\* A fill that has not been invoked yet.  pc: "none" | "await" (awaiting
\* Promise.all) | "done" | "thrown".  task[idx]: "none" | "embed" (awaiting
\* image load, detection, robustEmbed) | "hung" (awaiting an embedding call
\* that never returns) | "classify" | "tick" (in finally, awaiting tick())
\* | "resolved".  History fields: start/startLabels (the
\* tables copied at invocation), stale (the cache was cleared since), after
\* (the completed fill whose result the state tables still were at
\* invocation, 0 if none), outcome (how each item task ended).
NoFill ==
  [pc |-> "none", out |-> NoTables, outLabels |-> NoLabels, done |-> 0,
   inFlight |-> 0, i |-> 0, queue |-> {}, awaited |-> {},
   task |-> [e \in Idx |-> "none"], outcome |-> [e \in Idx |-> "none"],
   start |-> NoTables, startLabels |-> NoLabels, stale |-> FALSE, after |-> 0]

\* what a previous session left in localStorage
PriorTables(S) ==
  [id \in Idx |-> IF id \in S THEN Some(clipImageEmbedding(id)) ELSE Null]
PriorLabels(S) ==
  [id \in Idx |-> IF id \in S THEN classifyImage(id) ELSE << >>]
EmptyStorage == [vectors |-> Null, labels |-> Null]
InitialStorages ==
  {EmptyStorage}
    \cup {saveCatalogCache(EmptyStorage, PriorTables(S), PriorLabels(S), "ok") :
            S \in {{1}, Idx}}

\* the bundles a server may hold for the items of S
VectorBundle(S) == [id \in S |-> clipImageEmbedding(id)]
LabelBundle(S) == [id \in {j \in S : Len(classifyImage(j)) > 0} |-> classifyImage(id)]
Bundled(S) ==
  [e |-> Response("ok", VectorBundle(S)), l |-> Response("ok", LabelBundle(S))]
Failed(status) == Response(status, << >>)

\* What the two fetches of loadPrecomputedFiles get while a fill may run:
\* no bundle on the server, or both bundles for some of the items.
\* loadPrecomputedFiles resolves to null, or to tables for those items.
RemoteBundles ==
  {[e |-> Failed("notOk"), l |-> Failed("notOk")]}
    \cup {Bundled(S) : S \in {{}, {1, 2}, Idx}}

\* the state of Home after construction: everything but the tables and
\* the query vector and labels, then those
InitOther ==
  /\ alias = 0
  /\ statusCatalog = "idle"
  /\ progress = 0
  /\ mounted = FALSE
  /\ remote = "none"
  /\ fill = [f \in Fills |-> NoFill]
  /\ fillCount = 0
  /\ faults = 0
  /\ cleared = FALSE
  /\ displayQueryUrl = Null
  /\ queryImgLoaded = FALSE
  /\ queryLabelsOf = 0
  /\ statusQuery = "idle"
  /\ error = Null
  /\ lastBlobURL = Null
  /\ supplied = 0
  /\ urlFetch = {}
  /\ imgEl = "none"
  /\ run = [k \in 1..MaxQueries |-> "none"]
  /\ fetched = Null
  /\ minScore = 250
  /\ topK = 12
  /\ category = "All"
  /\ preferQueryClass = TRUE
  /\ onlySameClass = FALSE

InitHome ==
  /\ embeds = NoTables
  /\ labels = NoLabels
  /\ queryEmbed = Null
  /\ queryLabels = << >>
  /\ InitOther

Init == storage \in InitialStorages /\ InitHome

\* ---------------------------------------------------------- startup effect
StartupEffect ==
  /\ ~mounted
  /\ mounted' = TRUE
  /\ LET cached == loadCatalogCache(storage)
     IN  IF Has(cached)
         THEN /\ embeds' = Val(cached).embeds
              /\ labels' = Val(cached).labels
              /\ statusCatalog' = "ready"
              /\ progress' = NItems
              /\ remote' = "none"
         ELSE /\ remote' = "pending"
              /\ UNCHANGED << embeds, labels, statusCatalog, progress >>
  /\ UNCHANGED << storage, alias, fill, fillCount, faults, cleared >>
  /\ UNCHANGED << queryVars, filterVars, fetched >>

\* the continuation after `await loadPrecomputedFiles()`
\* (rs: the responses the two fetches got; the history variable fetched is
\* left to the specification that observes them)
RemoteLoaded(rs) ==
  /\ remote = "pending"
  /\ remote' = "done"
  /\ LET pre == loadPrecomputedFiles(rs.e, rs.l)
     IN  IF Has(pre)
         THEN /\ embeds' = Val(pre).embeds
              /\ labels' = Val(pre).labels
              /\ statusCatalog' = "ready"
              /\ progress' = NItems
              /\ alias' = 0
         ELSE UNCHANGED << embeds, labels, statusCatalog, progress, alias >>
  /\ UNCHANGED << storage, mounted, fill, fillCount, faults, cleared >>
  /\ UNCHANGED << queryVars, filterVars >>

\* ------------------------------------------------ computeCatalogEmbeddings
\* next(): start tasks while items remain and fewer than EMBED_CONCURRENCY
\* are in flight; an item whose out slot holds a vector is skipped.
\* next() with the bound tested as <= : one task too many may be in flight
RECURSIVE nextOffByOne(_)
nextOffByOne(r) ==
  IF r.i < NItems /\ r.inFlight <= EMBED_CONCURRENCY
  THEN LET idx == r.i + 1
       IN  IF Has(r.out[idx])
           THEN nextOffByOne([r EXCEPT !.i = idx])
           ELSE nextOffByOne([r EXCEPT !.i = idx,
                                       !.inFlight = @ + 1,
                                       !.task[idx] = "embed",
                                       !.queue = @ \cup {idx}])
  ELSE r

\* next() without `if (out[idx]) continue`: present slots are embedded again
RECURSIVE nextNoSkip(_)
nextNoSkip(r) ==
  IF r.i < NItems /\ r.inFlight < EMBED_CONCURRENCY
  THEN LET idx == r.i + 1
       IN  nextNoSkip([r EXCEPT !.i = idx,
                                !.inFlight = @ + 1,
                                !.task[idx] = "embed",
                                !.queue = @ \cup {idx}])
  ELSE r

\* next() whose loop stops one index short (`i < PRODUCTS.length - 1`)
RECURSIVE nextStopsEarly(_)
nextStopsEarly(r) ==
  IF r.i < NItems - 1 /\ r.inFlight < EMBED_CONCURRENCY
  THEN LET idx == r.i + 1
       IN  IF Has(r.out[idx])
           THEN nextStopsEarly([r EXCEPT !.i = idx])
           ELSE nextStopsEarly([r EXCEPT !.i = idx,
                                         !.inFlight = @ + 1,
                                         !.task[idx] = "embed",
                                         !.queue = @ \cup {idx}])
  ELSE r

RECURSIVE next(_)
next(r) ==
  IF r.i < NItems /\ r.inFlight < EMBED_CONCURRENCY
  THEN LET idx == r.i + 1
       IN  IF Has(r.out[idx])
           THEN next([r EXCEPT !.i = idx])
           ELSE next([r EXCEPT !.i = idx,
                               !.inFlight = @ + 1,
                               !.task[idx] = "embed",
                               !.queue = @ \cup {idx}])
  ELSE r

\* a catch block that resets the labels but leaves out[idx] as it is
ItemCatchKeepsVector(r, idx) ==
  [r EXCEPT !.outLabels[idx] = << >>, !.outcome[idx] = "fail"]

\* the catch block of an item task
ItemCatch(r, idx) ==
  [r EXCEPT !.out[idx] = Null, !.outLabels[idx] = << >>, !.outcome[idx] = "fail"]

\* a finally block that does not give the task's place back
ItemFinallyKeepsPlace(r, idx) ==
  [r EXCEPT !.done = @ + 1, !.task[idx] = "tick"]

\* the synchronous part of the finally block, up to `await tick()`
ItemFinally(r, idx) ==
  [r EXCEPT !.done = @ + 1, !.inFlight = @ - 1, !.task[idx] = "tick"]

\* Promise.all(queue) sees the promises that were in queue when it was
\* called; it is fulfilled once all of those are
AllSettled(r) == \A idx \in r.awaited : r.task[idx] = "resolved"

\* The tail of computeCatalogEmbeddings once Promise.all is fulfilled:
\* saveCatalogCache, setEmbeds(out), setLabels(outLabels), 'ready'.
\* fl is the fill table as the handler has left it, st the catalog status
\* the handler has set so far, res the storage's answer.
FillTail(fl, f, st, res) ==
  /\ storage' = saveCatalogCache(storage, fl[f].out, fl[f].outLabels, res)
  /\ IF saveThrows(res)
     THEN /\ fill' = [fl EXCEPT ![f].pc = "thrown"]
          /\ statusCatalog' = st
          /\ UNCHANGED << embeds, labels, alias >>
     ELSE /\ fill' = [fl EXCEPT ![f].pc = "done"]
          /\ embeds' = fl[f].out
          /\ labels' = fl[f].outLabels
          /\ alias' = f
          /\ statusCatalog' = "ready"
  /\ cleared' = IF fl[f].stale THEN cleared ELSE FALSE
  /\ faults' = Faulted(res, "ok")

\* item tasks the fills invoked so far start in all: one per item that was
\* missing when its fill was invoked
Missing(E) == {j \in Idx : ~Has(E[j])}
RECURSIVE EmbedCalls(_)
EmbedCalls(n) ==
  IF n = 0 THEN 0 ELSE EmbedCalls(n - 1) + Cardinality(Missing(fill[n].start))

\* the button is rendered with the status panel, i.e. once an image is shown
PanelShown == mounted /\ Has(displayQueryUrl)
ComputeDisabled == statusCatalog = "processing" \/ progress = NItems

\* click on 'Compute missing embeddings'
computeCatalogEmbeddings ==
  /\ PanelShown
  /\ ~ComputeDisabled
  /\ fillCount < MaxFills
  /\ EmbedCalls(fillCount) + Cardinality(Missing(embeds)) <= MaxEmbedCalls
  /\ IF statusCatalog = "processing"
     THEN UNCHANGED vars
     ELSE LET f == fillCount + 1
              present == Cardinality({j \in Idx : Has(embeds[j])})
              r0 == [NoFill EXCEPT !.pc = "await", !.out = embeds,
                                   !.outLabels = labels, !.done = present,
                                   !.start = embeds, !.startLabels = labels,
                                   !.after = alias]
              r1 == next(r0)
              r2 == [r1 EXCEPT !.awaited = r1.queue]
              fl == [fill EXCEPT ![f] = r2]
          IN  /\ fillCount' = f
              /\ progress' = present
              /\ IF AllSettled(r2)
                 THEN \E res \in Answers(StorageResults, "ok") :
                        FillTail(fl, f, "processing", res)
                 ELSE /\ fill' = fl
                      /\ statusCatalog' = "processing"
                      /\ UNCHANGED << storage, embeds, labels, alias, cleared, faults >>
              /\ UNCHANGED << mounted, remote >>
              /\ UNCHANGED << queryVars, filterVars, fetched >>

\* an array write of a task: out/outLabels of fill f, which are the arrays
\* held in embeds/labels when alias = f
WriteThrough(f, r) ==
  /\ embeds' = IF alias = f THEN r.out ELSE embeds
  /\ labels' = IF alias = f THEN r.outLabels ELSE labels

\* loadCatalogImage, detectAndCrop and robustEmbed of item idx return
EmbedDone(f, idx) ==
  /\ fill[f].task[idx] = "embed"
  /\ \E res \in Answers(EmbedResults, "clip") :
       LET r == fill[f]
           rNew == IF res = "fail"
                   THEN ItemFinally(ItemCatch(r, idx), idx)
                   ELSE [r EXCEPT !.out[idx] = Some(robustEmbed(idx, res)),
                                  !.task[idx] = "classify"]
       IN  /\ fill' = [fill EXCEPT ![f] = rNew]
           /\ WriteThrough(f, rNew)
           /\ progress' = IF res = "fail" THEN rNew.done ELSE progress
           /\ faults' = Faulted(res, "clip")
  /\ UNCHANGED << storage, alias, statusCatalog, mounted, remote, fillCount, cleared >>
  /\ UNCHANGED << queryVars, filterVars, fetched >>

\* the embedding call of item idx is one that never returns: its task stays
\* at the await, with its place among the in-flight tasks taken.  Fewer
\* than EMBED_CONCURRENCY calls of a fill hang.
Hung(r) == {idx \in Idx : r.task[idx] = "hung"}
EmbedHangs(f, idx) ==
  /\ fill[f].task[idx] = "embed"
  /\ Cardinality(Hung(fill[f])) + 1 < EMBED_CONCURRENCY
  /\ fill' = [fill EXCEPT ![f].task[idx] = "hung"]
  /\ UNCHANGED << storage, embeds, labels, alias, statusCatalog, progress,
                  mounted, remote, fillCount, faults, cleared >>
  /\ UNCHANGED << queryVars, filterVars, fetched >>

\* classifyImage of item idx returns
ClassifyDone(f, idx) ==
  /\ fill[f].task[idx] = "classify"
  /\ \E ok \in Answers(BOOLEAN, TRUE) :
       LET r == fill[f]
           rNew == IF ok
                   THEN ItemFinally([r EXCEPT !.outLabels[idx] = classifyImage(idx),
                                              !.outcome[idx] = "ok"], idx)
                   ELSE ItemFinally(ItemCatch(r, idx), idx)
       IN  /\ fill' = [fill EXCEPT ![f] = rNew]
           /\ WriteThrough(f, rNew)
           /\ progress' = rNew.done
           /\ faults' = Faulted(ok, TRUE)
  /\ UNCHANGED << storage, alias, statusCatalog, mounted, remote, fillCount, cleared >>
  /\ UNCHANGED << queryVars, filterVars, fetched >>

\* tick() returns: the task calls next() and its promise is fulfilled; if
\* that fulfils Promise.all, computeCatalogEmbeddings runs to its end
TickDone(f, idx) ==
  /\ fill[f].task[idx] = "tick"
  /\ LET r == next([fill[f] EXCEPT !.task[idx] = "resolved"])
         fl == [fill EXCEPT ![f] = r]
     IN  IF r.pc = "await" /\ AllSettled(r)
         THEN \E res \in Answers(StorageResults, "ok") :
                FillTail(fl, f, statusCatalog, res)
         ELSE /\ fill' = fl
              /\ UNCHANGED << storage, embeds, labels, alias, statusCatalog, cleared, faults >>
  /\ UNCHANGED << progress, mounted, remote, fillCount >>
  /\ UNCHANGED << queryVars, filterVars, fetched >>

\* click on 'Clear cache'
ClearCache ==
  /\ PanelShown
  /\ storage' = EmptyStorage
  /\ embeds' = NoTables
  /\ labels' = NoLabels
  /\ alias' = 0
  /\ statusCatalog' = "idle"
  /\ progress' = 0
  /\ cleared' = TRUE
  /\ fill' = [f \in Fills |->
                IF fill[f].pc = "none" THEN fill[f] ELSE [fill[f] EXCEPT !.stale = TRUE]]
  /\ UNCHANGED << mounted, remote, fillCount, faults >>
  /\ UNCHANGED << queryVars, filterVars, fetched >>

\* -------------------------------------------------------------- the query
\* onFile: a new blob URL is created and shown at once
onFile ==
  /\ supplied < MaxQueries
  /\ LET k == supplied + 1
     IN  /\ supplied' = k
         /\ error' = Null
         /\ lastBlobURL' = Some(k)
         /\ displayQueryUrl' = Some(k)
         /\ queryImgLoaded' = FALSE
         /\ statusQuery' = "processing"
         /\ imgEl' = "loading"
  /\ UNCHANGED << queryEmbed, queryLabels, queryLabelsOf, urlFetch, run >>
  /\ UNCHANGED << catalogVars, filterVars >>

\* onUrl up to `await fetchToObjectURL(...)`
onUrl ==
  /\ supplied < MaxQueries
  /\ LET k == supplied + 1
     IN  /\ supplied' = k
         /\ error' = Null
         /\ lastBlobURL' = Null
         /\ urlFetch' = urlFetch \cup {k}
  /\ UNCHANGED << displayQueryUrl, queryImgLoaded, queryEmbed, queryLabels,
                  queryLabelsOf, statusQuery, imgEl, run >>
  /\ UNCHANGED << catalogVars, filterVars >>

\* fetchToObjectURL of the k-th supplied image returns or throws
UrlFetched(k) ==
  /\ k \in urlFetch
  /\ urlFetch' = urlFetch \ {k}
  /\ \E ok \in BOOLEAN :
       IF ok
       THEN /\ lastBlobURL' = Some(k)
            /\ displayQueryUrl' = Some(k)
            /\ queryImgLoaded' = FALSE
            /\ statusQuery' = "processing"
            /\ imgEl' = "loading"
            /\ UNCHANGED error
       ELSE /\ displayQueryUrl' = Null
            /\ queryImgLoaded' = FALSE
            /\ statusQuery' = "error"
            /\ error' = Some("could not load")
            /\ imgEl' = "none"
            /\ UNCHANGED lastBlobURL
  /\ UNCHANGED << queryEmbed, queryLabels, queryLabelsOf, supplied, run >>
  /\ UNCHANGED << catalogVars, filterVars >>

\* onLoad of the preview <img>, and the query effect it triggers: run()
\* starts on the image the element shows
ImgOnLoad ==
  /\ imgEl = "loading"
  /\ imgEl' = "loaded"
  /\ queryImgLoaded' = TRUE
  /\ IF ~queryImgLoaded
     THEN /\ statusQuery' = "processing"
          /\ run' = [run EXCEPT ![Val(displayQueryUrl)] = "embed"]
     ELSE UNCHANGED << statusQuery, run >>
  /\ UNCHANGED << displayQueryUrl, queryEmbed, queryLabels, queryLabelsOf, error,
                  lastBlobURL, supplied, urlFetch >>
  /\ UNCHANGED << catalogVars, filterVars >>

\* an onError handler that leaves the status as it is
ImgOnErrorSilent ==
  /\ imgEl = "loading"
  /\ imgEl' = "error"
  /\ error' = Some("preview failed")
  /\ UNCHANGED << displayQueryUrl, queryImgLoaded, queryEmbed, queryLabels,
                  queryLabelsOf, statusQuery, lastBlobURL, supplied, urlFetch, run >>
  /\ UNCHANGED << catalogVars, filterVars >>

\* onError of the preview <img>
ImgOnError ==
  /\ imgEl = "loading"
  /\ imgEl' = "error"
  /\ statusQuery' = "error"
  /\ error' = Some("preview failed")
  /\ UNCHANGED << displayQueryUrl, queryImgLoaded, queryEmbed, queryLabels,
                  queryLabelsOf, lastBlobURL, supplied, urlFetch, run >>
  /\ UNCHANGED << catalogVars, filterVars >>

\* run(): detectAndCrop and robustEmbed of the k-th image return
QueryEmbedDone(k) ==
  /\ run[k] = "embed"
  /\ \E res \in EmbedResults :
       IF res = "fail"
       THEN /\ statusQuery' = "error"
            /\ error' = Some("failed to process")
            /\ run' = [run EXCEPT ![k] = "failed"]
            /\ UNCHANGED queryEmbed
       ELSE /\ queryEmbed' = Some(robustEmbed(QueryImage(k), res))
            /\ run' = [run EXCEPT ![k] = "classify"]
            /\ UNCHANGED << statusQuery, error >>
  /\ UNCHANGED << displayQueryUrl, queryImgLoaded, queryLabels, queryLabelsOf,
                  lastBlobURL, supplied, urlFetch, imgEl >>
  /\ UNCHANGED << catalogVars, filterVars >>

\* run(): classifyImage of the k-th image returns
QueryClassifyDone(k) ==
  /\ run[k] = "classify"
  /\ \E ok \in BOOLEAN :
       IF ok
       THEN /\ queryLabels' = classifyImage(QueryImage(k))
            /\ queryLabelsOf' = k
            /\ statusQuery' = "ready"
            /\ run' = [run EXCEPT ![k] = "done"]
            /\ UNCHANGED error
       ELSE /\ statusQuery' = "error"
            /\ error' = Some("failed to process")
            /\ run' = [run EXCEPT ![k] = "failed"]
            /\ UNCHANGED << queryLabels, queryLabelsOf >>
  /\ UNCHANGED << displayQueryUrl, queryImgLoaded, queryEmbed, lastBlobURL,
                  supplied, urlFetch, imgEl >>
  /\ UNCHANGED << catalogVars, filterVars >>

\* ------------------------------------------------------ SimilarityRanker
\* Numbers.  A vector component is an integer standing for the float of that
\* value; a similarity or score is kept in thousandths, rounded down; a
\* number that may be NaN is a record [nan, val].
Num(v) == [nan |-> FALSE, val |-> v]
NaN == [nan |-> TRUE, val |-> 0]

\* the integer square root, by bisection
RECURSIVE Bisect(_, _, _)
Bisect(lo, hi, n) ==
  IF hi - lo <= 1 THEN lo
  ELSE LET mid == (lo + hi) \div 2
       IN  IF mid * mid <= n THEN Bisect(mid, hi, n) ELSE Bisect(lo, mid, n)
Isqrt(n) == Bisect(0, 46341, n)

\* cosineSimilarity(a, b): the loop runs over the indices of a; b[i] beyond
\* the end of b is undefined, +undefined is NaN and makes dot and nb NaN;
\* `denom || 1` replaces a zero (or NaN) denominator by 1
RECURSIVE Dot(_, _, _)
Dot(a, b, n) == IF n = 0 THEN 0 ELSE Dot(a, b, n - 1) + a[n] * b[n]
cosineSimilarity(a, b) ==
  IF Len(a) > Len(b) THEN NaN
  ELSE LET n == Len(a)
           dot == Dot(a, b, n)
           na == Dot(a, a, n)
           nb == Dot(b, b, n)
       IN  IF na * nb = 0 THEN Num(dot * 1000)
           ELSE Num((dot * 100000) \div Isqrt(na * nb * 10000))

\* PRODUCTS[i].category: the catalog lists its categories one after another
CategoryOf(i) == IF 2 * i <= NItems THEN "Shoes" ELSE "Bags"
Categories == {CategoryOf(i) : i \in Idx}

\* the sum used as it is, without Math.max / Math.min
Unclamped(x) == x

\* Math.max(0, Math.min(1, x)): NaN stays NaN
Clamp(x) ==
  IF x.nan THEN NaN
  ELSE Num(IF x.val > 1000 THEN 1000 ELSE IF x.val < 0 THEN 0 ELSE x.val)

\* the sum without the boost
PlusNothing(x, d) == x

\* base + boost: NaN stays NaN
Plus(x, d) == IF x.nan THEN NaN ELSE Num(x.val + d)

\* a query without labels taken to match every item
sameClassOrNoLabels(L, qL, i) ==
  \/ qL = << >>
  \/ \E j \in 1..Len(L[i]) : \E k \in 1..Len(qL) : L[i][j] = qL[k]

\* labels[i]?.some((l) => queryLabels.includes(l))
sameClass(L, qL, i) ==
  \E j \in 1..Len(L[i]) : \E k \in 1..Len(qL) : L[i][j] = qL[k]

\* the rows pushed for items 1..n, in catalog order
RECURSIVE Rows(_, _, _, _, _, _, _)
Rows(q, E, L, qL, prefer, only, n) ==
  IF n = 0 THEN << >>
  ELSE LET rest == Rows(q, E, L, qL, prefer, only, n - 1)
       IN  IF ~Has(E[n]) THEN rest
           ELSE IF only /\ ~sameClass(L, qL, n) THEN rest
           ELSE LET base == cosineSimilarity(q, Val(E[n]))
                    boost == IF prefer /\ sameClass(L, qL, n) THEN 150 ELSE 0
                IN  Append(rest, [idx |-> n, score |-> Clamp(Plus(base, boost))])

\* the comparator (a, b) => b.score - a.score, as sort reads it: negative,
\* positive, or zero (NaN counts as zero)
Before(a, b) == ~a.score.nan /\ ~b.score.nan /\ a.score.val > b.score.val

\* a stable sort by the comparator: insertion from the left
RECURSIVE Insert(_, _)
Insert(sorted, d) ==
  IF sorted = << >> THEN << d >>
  ELSE IF Before(d, sorted[Len(sorted)])
       THEN Append(Insert(SubSeq(sorted, 1, Len(sorted) - 1), d), sorted[Len(sorted)])
       ELSE Append(sorted, d)
RECURSIVE StableSort(_)
StableSort(r) ==
  IF r = << >> THEN << >>
  ELSE Insert(StableSort(SubSeq(r, 1, Len(r) - 1)), r[Len(r)])

\* The comparator is consistent unless a NaN score (equal to everything)
\* stands beside two different scores.  Array.prototype.sort is stable for
\* a consistent comparator; otherwise the order is implementation-defined:
\* some order of the rows, the same one whenever the rows are the same.
Consistent(r) ==
  \/ \A n \in 1..Len(r) : ~r[n].score.nan
  \/ \A j, k \in 1..Len(r) : ~Before(r[j], r[k])
Orders(r) == {[j \in 1..Len(r) |-> r[f[j]]] : f \in Permutations(1..Len(r))}
SortOutcomes(r) == IF Consistent(r) THEN {StableSort(r)} ELSE Orders(r)

\* the filter with > in place of >=
AtLeastStrict(r, min) ==
  LET Keep(d) == ~d.score.nan /\ d.score.val > min
  IN  SelectSeq(r, Keep)

\* r.filter(d => d.score >= minScore): NaN >= x is false
AtLeast(r, min) ==
  LET Keep(d) == ~d.score.nan /\ d.score.val >= min
  IN  SelectSeq(r, Keep)

\* slice(-k): the last k rows
TakeLast(r, k) == IF Len(r) <= k THEN r ELSE SubSeq(r, Len(r) - k + 1, Len(r))

\* slice(0, k)
Take(r, k) == IF Len(r) <= k THEN r ELSE SubSeq(r, 1, k)

\* the rows without the category filter
CandidatesAllCategories ==
  IF ~Has(queryEmbed) THEN << >>
  ELSE Rows(Val(queryEmbed), embeds, labels, queryLabels,
            preferQueryClass, onlySameClass, NItems)

\* the rows computed also while there is no query vector, against a zero
\* vector in its place
CandidatesAnyQuery ==
  LET q == IF Has(queryEmbed) THEN Val(queryEmbed) ELSE << 0, 0 >>
      rows == Rows(q, embeds, labels, queryLabels,
                   preferQueryClass, onlySameClass, NItems)
      InCategory(d) == CategoryOf(d.idx) = category
  IN  IF category # "All" THEN SelectSeq(rows, InCategory) ELSE rows

\* the rows of the category filter, before the sort
Candidates ==
  IF ~Has(queryEmbed) THEN << >>
  ELSE LET rows == Rows(Val(queryEmbed), embeds, labels, queryLabels,
                        preferQueryClass, onlySameClass, NItems)
           InCategory(d) == CategoryOf(d.idx) = category
       IN  IF category # "All" THEN SelectSeq(rows, InCategory) ELSE rows

\* scored, given the order the sort left the rows in
scored(order) == Take(AtLeast(order, minScore), topK)

\* the filter controls; the sliders and the select offer these values (the
\* top-K slider scaled to the catalog of the model, with the two defaults)
MinScores == {0, 250, 700, 1000}
TopKs == (1..(NItems + 1)) \cup {12, 16}

setMinScore(v) ==
  /\ v # minScore
  /\ minScore' = v
  /\ UNCHANGED << topK, category, preferQueryClass, onlySameClass >>
  /\ UNCHANGED << catalogVars, queryVars >>

setTopK(k) ==
  /\ k # topK
  /\ topK' = k
  /\ UNCHANGED << minScore, category, preferQueryClass, onlySameClass >>
  /\ UNCHANGED << catalogVars, queryVars >>

setCategory(c) ==
  /\ c # category
  /\ category' = c
  /\ UNCHANGED << minScore, topK, preferQueryClass, onlySameClass >>
  /\ UNCHANGED << catalogVars, queryVars >>

setPreferQueryClass ==
  /\ preferQueryClass' = ~preferQueryClass
  /\ UNCHANGED << minScore, topK, category, onlySameClass >>
  /\ UNCHANGED << catalogVars, queryVars >>

setOnlySameClass ==
  /\ onlySameClass' = ~onlySameClass
  /\ UNCHANGED << minScore, topK, category, preferQueryClass >>
  /\ UNCHANGED << catalogVars, queryVars >>

\* click on 'Reset filters'
ResetFilters ==
  /\ minScore' = 250
  /\ topK' = 16
  /\ category' = "All"
  /\ preferQueryClass' = TRUE
  /\ onlySameClass' = FALSE
  /\ UNCHANGED << catalogVars, queryVars >>

\* ------------------------------------------------------- result messages
\* the three messages under the result grid; the length of scored does not
\* depend on the order the sort leaves
NoQueryShown == ~Has(queryEmbed)
CatalogNotReadyShown == Has(queryEmbed) /\ statusCatalog # "ready"
NoMatchesShown ==
  /\ Has(queryEmbed)
  /\ statusCatalog = "ready"
  /\ \A order \in SortOutcomes(Candidates) : Len(scored(order)) = 0

\* ---------------------------------------------------------- specifications
\* The catalog side.  The query side acts on it only through PanelShown,
\* which the first supplied image makes true; later images do not change
\* what the catalog side can do.
SupplyFirstImage == supplied = 0 /\ onFile

Next ==
  \/ StartupEffect
  \/ \E rs \in RemoteBundles : RemoteLoaded(rs) /\ UNCHANGED fetched
  \/ SupplyFirstImage
  \/ computeCatalogEmbeddings
  \/ \E f \in Fills, idx \in Idx : EmbedDone(f, idx)
  \/ \E f \in Fills, idx \in Idx : ClassifyDone(f, idx)
  \/ \E f \in Fills, idx \in Idx : TickDone(f, idx)
  \/ ClearCache

Spec == Init /\ [][Next]_vars

\* The query side: supplying images and the asynchronous steps that follow.
NextQuery ==
  \/ StartupEffect
  \/ onFile
  \/ onUrl
  \/ \E k \in 1..MaxQueries : UrlFetched(k)
  \/ ImgOnLoad
  \/ ImgOnError
  \/ \E k \in 1..MaxQueries : QueryEmbedDone(k)
  \/ \E k \in 1..MaxQueries : QueryClassifyDone(k)

SpecQuery == Init /\ [][NextQuery]_vars

\* The query side with its collaborators answering: a pending fetch of a
\* URL, a loading preview image and a pending embedding or classification
\* each eventually return or fail.  The user's own steps (onFile, onUrl) and
\* the mount of the component are under no such obligation.
QueryFairness ==
  /\ \A k \in 1..MaxQueries : WF_vars(UrlFetched(k))
  /\ WF_vars(ImgOnLoad \/ ImgOnError)
  /\ \A k \in 1..MaxQueries : WF_vars(QueryEmbedDone(k))
  /\ \A k \in 1..MaxQueries : WF_vars(QueryClassifyDone(k))

SpecQueryLive == Init /\ [][NextQuery]_vars /\ QueryFairness

\* A fill with embedding calls that may hang, and with every other awaited
\* call of an item task answering: image load, detection and embedding
\* (unless hung), classification, tick().  One fill is followed, the first
\* one: the scheduler works on the locals of its own invocation (out,
\* queue, inFlight, i), which neither another fill, nor the remote load,
\* nor 'Clear cache' touches.
FirstFill == fillCount = 0 /\ computeCatalogEmbeddings

NextHung ==
  \/ StartupEffect
  \/ SupplyFirstImage
  \/ FirstFill
  \/ \E idx \in Idx : EmbedDone(1, idx)
  \/ \E idx \in Idx : EmbedHangs(1, idx)
  \/ \E idx \in Idx : ClassifyDone(1, idx)
  \/ \E idx \in Idx : TickDone(1, idx)

FillFairness ==
  /\ \A idx \in Idx : WF_vars(EmbedDone(1, idx))
  /\ \A idx \in Idx : WF_vars(ClassifyDone(1, idx))
  /\ \A idx \in Idx : WF_vars(TickDone(1, idx))

SpecHung == Init /\ [][NextHung]_vars /\ FillFairness

\* The page with one query image: the startup effect and the remote load
\* on the catalog side, the first image and the steps of its processing on
\* the query side, 'Clear cache', and the filter controls that can empty a
\* ranking.
NextPage ==
  \/ StartupEffect
  \/ \E rs \in RemoteBundles : RemoteLoaded(rs) /\ UNCHANGED fetched
  \/ SupplyFirstImage
  \/ ImgOnLoad
  \/ ImgOnError
  \/ QueryEmbedDone(1)
  \/ QueryClassifyDone(1)
  \/ ClearCache
  \/ \E v \in MinScores : setMinScore(v)
  \/ \E c \in {"All"} \cup Categories : setCategory(c)
  \/ setOnlySameClass

SpecPage == Init /\ [][NextPage]_vars

\* The page with everything awaited answering: the component mounts, the
\* two fetches of the remote load return, the preview image loads or fails,
\* embedding and classification of the query return or fail.  The user
\* is under no obligation to press anything; the effect on [queryEmbed,
\* statusCatalog] has an empty body and is no step.
PageFairness ==
  /\ WF_vars(StartupEffect)
  /\ WF_vars(\E rs \in RemoteBundles : RemoteLoaded(rs) /\ UNCHANGED fetched)
  /\ WF_vars(ImgOnLoad \/ ImgOnError)
  /\ WF_vars(QueryEmbedDone(1))
  /\ WF_vars(QueryClassifyDone(1))

SpecPageLive == Init /\ [][NextPage]_vars /\ PageFairness

\* Startup alone, over whatever localStorage and the server may hold.
\* A stored vector string: empty, a saved vector, a string of one byte (not
\* a whole number of 32-bit words), a string atob rejects.
StoredStrings(id) ==
  {<< >>, encodeVec(clipImageEmbedding(id)), <<0, 16, 64, 64>>, <<0, 0, 0, 0, 0>>}
StoredVectors ==
  {Null, Some(NotJSON)}
    \cup UNION {{Some(rec) : rec \in {r \in [S -> UNION {StoredStrings(id) : id \in S}] :
                                        \A id \in S : r[id] \in StoredStrings(id)}} :
                 S \in SUBSET Idx}
StoredLabels ==
  {Null, Some(NotJSON), Some(SavedLabels(PriorLabels(Idx)))}
StartupStorages ==
  {[vectors |-> v, labels |-> l] : v \in StoredVectors, l \in StoredLabels}

\* the responses of the two fetches: any failure, or a bundle for some items
\* (an item of the vector bundle may be an empty array)
VectorResponses ==
  {Failed("reject"), Failed("notOk"), Failed("malformed")}
    \cup {Response("ok", VectorBundle(S)) : S \in {{}, {1, 2}, Idx}}
    \cup {Response("ok", [id \in {1, 2} |-> IF id = 1 THEN << >> ELSE clipImageEmbedding(id)])}
LabelResponses ==
  {Failed("reject"), Failed("notOk"), Failed("malformed")}
    \cup {Response("ok", LabelBundle(S)) : S \in {{}, Idx}}
RemoteResponses ==
  {[e |-> e, l |-> l] : e \in VectorResponses, l \in LabelResponses}

InitStartup == storage \in StartupStorages /\ InitHome

NextStartup ==
  \/ StartupEffect
  \/ \E rs \in RemoteResponses : RemoteLoaded(rs) /\ fetched' = Some(rs)

SpecStartup == InitStartup /\ [][NextStartup]_vars

\* The cache round trip alone: saveCatalogCache applied to tables of
\* vectors of one to three words with all byte patterns of a word (a sign
\* bit aside), some slots empty, and label sets with and without a vector.
CodecWords == {0, 1, 258, 16777217, 1065353216, 2147483647}
CodecVectors ==
  {<< w >> : w \in CodecWords}
    \cup {<< a, b >> : a, b \in {0, 1065353216, 2147483647}}
    \cup {<< 1065353216, 0, 2147483647 >>, << 255, 65280, 16711680 >>}
CodecTables ==
  {E \in [Idx -> {Null} \cup {Some(v) : v \in CodecVectors}
                        \cup {Some(clipImageEmbedding(i)) : i \in Idx}] :
     \A i \in Idx : i > 2 => E[i] \in {Null, Some(clipImageEmbedding(i))}}
CodecLabels == {NoLabels, PriorLabels({1}), PriorLabels(Idx)}

InitCodec ==
  /\ storage = EmptyStorage
  /\ embeds \in CodecTables
  /\ labels \in CodecLabels
  /\ queryEmbed = Null
  /\ queryLabels = << >>
  /\ InitOther

\* saveCatalogCache(embeds, labels), the storage accepting both writes
SaveTables ==
  /\ storage = EmptyStorage
  /\ storage' = saveCatalogCache(storage, embeds, labels, "ok")
  /\ UNCHANGED << embeds, labels, alias, statusCatalog, progress, mounted,
                  remote, fill, fillCount, faults, cleared, fetched >>
  /\ UNCHANGED << queryVars, filterVars >>

NextCodec == SaveTables

SpecCodec == InitCodec /\ [][NextCodec]_vars

\* The ranking alone: scored over catalog tables, query vectors and labels
\* as fills and queries leave them (vectors of the two embedding functions,
\* of two and of one component here, also mixed in one table; negative and
\* zero vectors; equal vectors), under every setting of the filter controls.
TableOf(P) == [i \in Idx |-> IF i <= Len(P) THEN P[i] ELSE Null]
RankTables ==
  {TableOf(P) : P \in
     {<< Some(<<10, 0>>), Some(<<0, 10>>), Some(<<7, 7>>) >>,
      << Some(<<7, 7>>), Some(<<10, 0>>), Some(<<7, 7>>), Some(<<10, 0>>) >>,
      << Some(<<-10, 0>>), Some(<<0, 0>>), Some(<<3, 4>>), Some(<<10, 0>>) >>,
      << Some(<<5>>), Some(<<10, 0>>), Some(<<0, 10>>), Some(<<7, 7>>) >>,
      << Some(<<0, 10>>), Some(<<5>>), Some(<<10, 0>>), Some(<<7, 7>>) >>,
      << Some(<<5>>), Some(<<-5>>), Some(<<5>>) >>,
      << Null, Some(<<0, 10>>), Null, Some(<<10, 0>>) >>,
      << >>}}
RankQueries == {Null, Some(<<10, 0>>), Some(<<5>>), Some(<<0, 0>>)}
RankLabels == {NoLabels, PriorLabels(Idx)}
RankQueryLabels == {<< >>, << "backpack" >>, << "laptop" >>}

InitRank ==
  /\ storage = EmptyStorage
  /\ embeds \in RankTables
  /\ labels \in RankLabels
  /\ queryEmbed \in RankQueries
  /\ queryLabels \in RankQueryLabels
  /\ InitOther

NextRank ==
  \/ \E v \in MinScores : setMinScore(v)
  \/ \E k \in TopKs : setTopK(k)
  \/ \E c \in {"All"} \cup Categories : setCategory(c)
  \/ setPreferQueryClass
  \/ setOnlySameClass
  \/ ResetFilters

SpecRank == InitRank /\ [][NextRank]_vars

\* ================================================================= claims
Started(f) == fill[f].pc # "none"
\* an item task has settled once its work ended, with success or failure
Settled(r, idx) == r.task[idx] \in {"tick", "resolved"}
InFlight(r) == {idx \in Idx : r.task[idx] \in {"embed", "classify"}}
Count(E) == Cardinality({j \in Idx : Has(E[j])})

\* C1: the tail of a fill (cache saved, tables installed, status 'ready')
\* has run only if every item that was missing when the fill was invoked
\* has settled.
C1_ReadyOnlyAfterAllSettled ==
  \A f \in Fills :
    fill[f].pc = "done" =>
      \A idx \in Missing(fill[f].start) : Settled(fill[f], idx)

\* C2: no two fills have unsettled item tasks at the same time (an
\* invocation while a fill has unsettled tasks starts nothing).
C2_NoTwoFillsRunning ==
  \A f, g \in Fills :
    f # g => ~(InFlight(fill[f]) # {} /\ InFlight(fill[g]) # {})

\* C3: in every fill the number of item tasks started and not yet settled
\* is between 0 and EMBED_CONCURRENCY, and the inFlight counter is that
\* number.
C3_BoundedInFlight ==
  \A f \in Fills :
    /\ Cardinality(InFlight(fill[f])) <= EMBED_CONCURRENCY
    /\ fill[f].inFlight = Cardinality(InFlight(fill[f]))
    /\ fill[f].inFlight >= 0

\* a fill with the cap reached after one of its tasks has already settled
\* and been replaced
C3_Witness ==
  \E f \in Fills :
    /\ Cardinality(InFlight(fill[f])) = EMBED_CONCURRENCY
    /\ \E idx \in Idx : fill[f].task[idx] = "resolved"

\* C4: once nothing of the query side is pending and the most recently
\* supplied image was processed successfully, the displayed image, the
\* query vector, the query labels and the query status are that image's.
QueryQuiescent ==
  /\ urlFetch = {}
  /\ imgEl # "loading"
  /\ \A k \in 1..MaxQueries : run[k] \notin {"embed", "classify"}
VectorOf(k) ==
  {robustEmbed(QueryImage(k), res) : res \in EmbedResults \ {"fail"}}
C4_LatestQueryWins ==
  (QueryQuiescent /\ supplied > 0 /\ run[supplied] = "done") =>
    /\ displayQueryUrl = Some(supplied)
    /\ Has(queryEmbed) /\ Val(queryEmbed) \in VectorOf(supplied)
    /\ queryLabelsOf = supplied
    /\ statusQuery = "ready"

\* C5: a fill ends with its tables installed and the catalog 'ready',
\* whatever the storage answers to saveCatalogCache.
FillEnds(f) ==
  fill[f].pc \in {"none", "await"} /\ fill'[f].pc \in {"done", "thrown"}
C5_StorageFailureSwallowed ==
  [][\A f \in Fills :
       FillEnds(f) => /\ statusCatalog' = "ready"
                      /\ embeds' = fill'[f].out
                      /\ labels' = fill'[f].outLabels]_vars

\* C6: an item whose task failed has no vector and an empty label set in
\* its fill's tables; the fill ends only through its tail, after the awaited
\* tasks are fulfilled (no item failure ends it); and once no task of a fill
\* is pending, every item missing at its start has been attempted.
NoTaskPending(r) ==
  \A idx \in Idx : r.task[idx] \in {"none", "resolved"}
C6_ItemFailureContained ==
  \A f \in Fills :
    /\ \A idx \in Idx :
         fill[f].outcome[idx] = "fail" =>
           /\ fill[f].out[idx] = Null
           /\ fill[f].outLabels[idx] = << >>
    /\ fill[f].pc \in {"done", "thrown"} => AllSettled(fill[f])
    /\ (Started(f) /\ NoTaskPending(fill[f])) =>
         /\ fill[f].pc \in {"done", "thrown"}
         /\ \A idx \in Missing(fill[f].start) : fill[f].outcome[idx] # "none"

\* a finished fill in which classification of one item failed after its
\* embedding, and an item started after that failure succeeded
C6_Witness ==
  \E f \in Fills :
    /\ fill[f].pc = "done"
    /\ NoTaskPending(fill[f])
    /\ Cardinality(Missing(fill[f].start)) > EMBED_CONCURRENCY
    /\ \E idx \in Idx : fill[f].outcome[idx] = "fail"
    /\ fill[f].outcome[NItems] = "ok"

\* C7: a fill invoked while the state tables are still those a completed
\* fill installed (no clear, no other load in between) starts no item task.
C7_SecondFillIdle ==
  \A g \in Fills :
    (Started(g) /\ fill[g].after # 0) => fill[g].queue = {}

\* C8: a fill starts no task for an item whose slot held a vector at its
\* start, keeps that slot and its labels as they were in its own tables, and
\* installs them unchanged.
C8_PresentSlotsUntouched ==
  \A f \in Fills :
    Started(f) =>
      \A idx \in Idx \ Missing(fill[f].start) :
        /\ fill[f].task[idx] = "none"
        /\ fill[f].out[idx] = fill[f].start[idx]
        /\ fill[f].outLabels[idx] = fill[f].startLabels[idx]
        /\ alias = f => /\ embeds[idx] = fill[f].start[idx]
                        /\ labels[idx] = fill[f].startLabels[idx]

\* a completed fill over a partly filled table: the missing slots were
\* computed and its tables are the state tables
C8_Witness ==
  \E f \in Fills :
    /\ fill[f].pc = "done"
    /\ alias = f
    /\ Missing(fill[f].start) \notin {{}, Idx}
    /\ \A idx \in Missing(fill[f].start) : Has(embeds[idx])

\* C9: a step of a running fill never lowers the number of slots of the
\* catalog vector table that hold a vector, and when the fill reaches
\* 'ready' with no item failed that number is the catalog size.
FillStep(f) ==
  /\ fill[f].pc = "await"
  /\ fill'[f] # fill[f]
  /\ fill'[f].stale = fill[f].stale
NoItemFailed(r) == \A idx \in Idx : r.outcome[idx] # "fail"
C9_MonotonicCompleteness ==
  [][\A f \in Fills :
       FillStep(f) =>
         /\ Count(embeds') >= Count(embeds)
         /\ (fill'[f].pc = "done" /\ NoItemFailed(fill'[f])) =>
              Count(embeds') = NItems]_vars

\* C10: from a cache clear until a fill invoked after it has ended,
\* loadCatalogCache returns no tables and the state tables are not those of
\* a fill.
C10_ClearedStaysCleared ==
  cleared => /\ loadCatalogCache(storage) = Null
             /\ alias = 0

\* C11: once every item task of a fill has settled, the cache was not
\* cleared meanwhile and the storage accepted the fill's write,
\* loadCatalogCache returns, for every item the fill obtained a vector for,
\* that vector.
C11_ComputedVectorsPersisted ==
  \A f \in Fills :
    (fill[f].pc = "done" /\ NoTaskPending(fill[f]) /\ ~fill[f].stale) =>
      \A idx \in Idx :
        fill[f].outcome[idx] = "ok" =>
          /\ Has(loadCatalogCache(storage))
          /\ Val(loadCatalogCache(storage)).embeds[idx] = fill[f].out[idx]

\* C12: when nothing is stored, when a stored entry is not JSON, or when a
\* stored vector string cannot be decoded, loadCatalogCache returns null (it
\* does not throw) and startup proceeds as with a cold cache: tables empty,
\* catalog idle, the remote bundle requested.
Undecodable(str) == atobThrows(str) \/ Len(atob(str)) % 4 # 0
ColdOrCorrupt(st) ==
  \/ st = EmptyStorage
  \/ Has(st.vectors) /\ Val(st.vectors) = NotJSON
  \/ Has(st.labels) /\ Val(st.labels) = NotJSON
  \/ /\ Has(st.vectors) /\ Val(st.vectors) # NotJSON
     /\ \E id \in DOMAIN Val(st.vectors) :
          Len(Val(st.vectors)[id]) > 0 /\ Undecodable(Val(st.vectors)[id])
C12_LoadNeverThrows ==
  ColdOrCorrupt(storage) =>
    /\ loadCatalogCache(storage) = Null
    /\ mounted => remote # "none"
    /\ (mounted /\ remote = "pending") =>
         /\ embeds = NoTables
         /\ labels = NoLabels
         /\ statusCatalog = "idle"
         /\ progress = 0

\* startup over a cache that holds a decodable vector beside an undecodable
\* one, and valid labels
C12_Witness ==
  /\ mounted
  /\ remote = "pending"
  /\ Has(storage.vectors) /\ Val(storage.vectors) # NotJSON
  /\ Has(storage.labels) /\ Val(storage.labels) # NotJSON
  /\ \E id, jd \in DOMAIN Val(storage.vectors) :
       /\ Val(storage.vectors)[id] = encodeVec(clipImageEmbedding(id))
       /\ Len(Val(storage.vectors)[jd]) > 0
       /\ ~atobThrows(Val(storage.vectors)[jd])
       /\ Len(atob(Val(storage.vectors)[jd])) % 4 # 0

\* C16: the cache is read before any remote request, and the remote bundle
\* is requested at startup exactly when the cache leaves some catalog item
\* without a vector.
CacheComplete(st) ==
  /\ Has(loadCatalogCache(st))
  /\ Missing(Val(loadCatalogCache(st)).embeds) = {}
C16_RemoteIffCacheInsufficient ==
  /\ ~mounted => remote = "none"
  /\ mounted => (remote = "none" <=> CacheComplete(storage))

\* C15: loadPrecomputedFiles returns null when the vector bundle request
\* fails, is not ok or is malformed, and returns the vector table whenever
\* the vector bundle is fetched and parsed, whatever happens to the label
\* bundle (a missing label bundle only leaves the label sets empty); the
\* startup effect installs what it returns.
BundleTable(body) ==
  [id \in Idx |-> IF id \in DOMAIN body THEN Some(body[id]) ELSE Null]
C15_LabelBundleOptional ==
  Has(fetched) =>
    LET e == Val(fetched).e
        l == Val(fetched).l
        pre == loadPrecomputedFiles(e, l)
    IN  /\ e.status # "ok" =>
             /\ pre = Null
             /\ embeds = NoTables
             /\ statusCatalog = "idle"
        /\ e.status = "ok" =>
             /\ Has(pre)
             /\ Val(pre).embeds = BundleTable(e.body)
             /\ embeds = BundleTable(e.body)
             /\ statusCatalog = "ready"
             /\ l.status # "ok" => labels = NoLabels

\* C13: after saveCatalogCache of tables with at least one vector,
\* loadCatalogCache returns tables in which the same items have a vector,
\* each vector equal to the saved one (word by word, hence byte by byte),
\* and each item's label set equal to the saved one.
Saved == storage # EmptyStorage
C14_CodecRoundTrip ==
  /\ decodeVec(encodeVec(<< >>)) = << >>
  /\ Saved =>
       \A i \in Idx :
         Has(embeds[i]) =>
           LET v == Val(embeds[i])
               str == Val(storage.vectors)[i]
           IN  /\ str = encodeVec(v)
               /\ ~atobThrows(str)
               /\ Len(atob(str)) % 4 = 0
               /\ Len(decodeVec(str)) = Len(v)
               /\ \A j \in 1..Len(v) : decodeVec(str)[j] = v[j]

\* saved vectors of one, two and three words (4, 8 and 12 bytes: every
\* base64 padding), one of them with all four bytes of a word set
C14_Witness ==
  /\ Saved
  /\ \A n \in 1..3 : \E i \in Idx : Has(embeds[i]) /\ Len(Val(embeds[i])) = n
  /\ \E i \in Idx : Has(embeds[i]) /\ Val(embeds[i])[1] = 2147483647

\* C17: the vectors of the catalog vector table all have one length, so do
\* the vectors persisted under the cache key, and the query vector they are
\* ranked against has that length too.
Lengths(E) == {Len(Val(E[i])) : i \in {j \in Idx : Has(E[j])}}
C17_OneDimensionality ==
  /\ Cardinality(Lengths(embeds)) <= 1
  /\ Has(loadCatalogCache(storage)) =>
       Cardinality(Lengths(Val(loadCatalogCache(storage)).embeds)) <= 1
  /\ Has(queryEmbed) => Lengths(embeds) \subseteq {Len(Val(queryEmbed))}

\* C18: every score of the ranking result is a number between 0 and 1
\* (0 and 1000 thousandths), whatever the query vector, the tables and the
\* filter settings.
C18_ScoreBounds ==
  \A order \in SortOutcomes(Candidates) :
    \A j \in 1..Len(scored(order)) :
      /\ ~scored(order)[j].score.nan
      /\ scored(order)[j].score.val >= 0
      /\ scored(order)[j].score.val <= 1000

\* a result that holds a score clamped from above 1 (a boosted similarity
\* of 1) and a score clamped from below 0
C18_Witness ==
  /\ minScore = 0
  /\ preferQueryClass
  /\ \E order \in SortOutcomes(Candidates) :
       /\ \E j \in 1..Len(scored(order)) :
            LET i == scored(order)[j].idx
            IN  /\ sameClass(labels, queryLabels, i)
                /\ cosineSimilarity(Val(queryEmbed), Val(embeds[i])).val = 1000
                /\ scored(order)[j].score.val = 1000
       /\ \E j \in 1..Len(scored(order)) :
            LET i == scored(order)[j].idx
            IN  /\ cosineSimilarity(Val(queryEmbed), Val(embeds[i])).val < 0
                /\ scored(order)[j].score.val = 0

\* C19: the ranking result is ordered by score descending and results of
\* equal score are in catalog order; for catalog vectors [1,0], [0,1],
\* [0.7,0.7], query [1,0], minSimilarity 0, topK 3 and no boost the order
\* is item 1, item 3, item 2.
Descending(r) ==
  \A j, k \in 1..Len(r) :
    j < k => \/ r[j].score.val > r[k].score.val
             \/ r[j].score.val = r[k].score.val /\ r[j].idx < r[k].idx
ExampleOfC19 ==
  /\ embeds = TableOf(<< Some(<<10, 0>>), Some(<<0, 10>>), Some(<<7, 7>>) >>)
  /\ queryEmbed = Some(<<10, 0>>)
  /\ minScore = 0 /\ topK = 3 /\ category = "All" /\ ~preferQueryClass /\ ~onlySameClass
C19_OrderedStable ==
  \A order \in SortOutcomes(Candidates) :
    /\ Descending(scored(order))
    /\ ExampleOfC19 =>
         /\ Len(scored(order)) = 3
         /\ scored(order)[1].idx = 1 /\ scored(order)[1].score.val = 1000
         /\ scored(order)[2].idx = 3 /\ scored(order)[2].score.val = 707
         /\ scored(order)[3].idx = 2 /\ scored(order)[3].score.val = 0

\* C20: for the same rows and the other filters fixed, the result for
\* topK = K is a prefix of the result for every larger topK, and its length
\* is the smaller of K and the number of rows left before the truncation.
IsPrefix(a, b) == Len(a) <= Len(b) /\ a = SubSeq(b, 1, Len(a))
C20_TopKPrefix ==
  \A order \in SortOutcomes(Candidates) :
    LET left == AtLeast(order, minScore)
    IN  /\ Len(scored(order)) = (IF topK <= Len(left) THEN topK ELSE Len(left))
        /\ \A K \in TopKs :
             /\ K > topK => IsPrefix(scored(order), Take(left, K))
             /\ K < topK => IsPrefix(Take(left, K), scored(order))

\* a truncated result: topK is below the number of rows left, which differ
\* in score
C20_Witness ==
  \E order \in SortOutcomes(Candidates) :
    /\ topK >= 2
    /\ Len(AtLeast(order, minScore)) > topK
    /\ scored(order)[1].score.val > scored(order)[topK].score.val

\* ---- the ranking under the filters
\* the items that pass the class and category filters, told from the
\* tables and the controls
SharesLabel(i) ==
  {labels[i][j] : j \in 1..Len(labels[i])}
    \cap {queryLabels[k] : k \in 1..Len(queryLabels)} # {}
PassesFilters(i) ==
  /\ Has(embeds[i])
  /\ onlySameClass => SharesLabel(i)
  /\ category # "All" => CategoryOf(i) = category
RowOf(rows, i) == CHOOSE d \in {rows[j] : j \in 1..Len(rows)} : d.idx = i
Shown(rows) == {rows[j].idx : j \in 1..Len(rows)}
Reaches(d) == ~d.score.nan /\ d.score.val >= minScore

\* C21: every row of the ranking result has a score of at least minScore;
\* every item that passes the class and category filters has a row, and
\* those whose score is at least minScore are all in the result when they
\* are at most topK, and fill the result up to topK otherwise.
C21_MinScoreFilter ==
  Has(queryEmbed) =>
    \A order \in SortOutcomes(Candidates) :
      LET res == scored(order)
          passing == {i \in Idx : PassesFilters(i)}
          reaching == {i \in passing : Reaches(RowOf(order, i))}
      IN  /\ Shown(order) = passing
          /\ \A j \in 1..Len(res) : Reaches(res[j])
          /\ Shown(res) \subseteq reaching
          /\ Cardinality(reaching) <= topK => Shown(res) = reaching
          /\ Cardinality(reaching) > topK => Len(res) = topK

\* minScore holds back a row that passed the filters and lets through
\* another one, whose score equals minScore; topK removes nothing
C21_Witness ==
  /\ Has(queryEmbed)
  /\ \E order \in SortOutcomes(Candidates) :
       /\ Len(order) <= topK
       /\ \E j \in 1..Len(order) : ~Reaches(order[j])
       /\ \E j \in 1..Len(scored(order)) : scored(order)[j].score.val = minScore

\* C22: with preferQueryClass on, the score of an item that shares a label
\* with the query is min(1, max(0, base + 0.15)), base being the value of
\* cosineSimilarity for the query vector and the item's vector; with the
\* option off, or no shared label, it is min(1, max(0, base)).  (Where base
\* is NaN both sides are NaN.)
Largest(x, y) == IF x >= y THEN x ELSE y
Smallest(x, y) == IF x <= y THEN x ELSE y
ExpectedScore(i) ==
  LET base == cosineSimilarity(Val(queryEmbed), Val(embeds[i]))
      add == IF preferQueryClass /\ SharesLabel(i) THEN 150 ELSE 0
  IN  IF base.nan THEN NaN ELSE Num(Smallest(1000, Largest(0, base.val + add)))
C22_ClassBoost ==
  Has(queryEmbed) =>
    \A j \in 1..Len(Candidates) :
      Candidates[j].score = ExpectedScore(Candidates[j].idx)

\* preferQueryClass is on; one row is boosted by 0.15 and stays below 1,
\* another row, of an item that shares no label, has its base similarity
C22_Witness ==
  /\ Has(queryEmbed)
  /\ preferQueryClass
  /\ \E j, k \in 1..Len(Candidates) :
       LET a == Candidates[j]
           b == Candidates[k]
           baseA == cosineSimilarity(Val(queryEmbed), Val(embeds[a.idx]))
           baseB == cosineSimilarity(Val(queryEmbed), Val(embeds[b.idx]))
       IN  /\ SharesLabel(a.idx) /\ ~baseA.nan /\ baseA.val > 0
           /\ a.score.val = baseA.val + 150 /\ a.score.val < 1000
           /\ ~SharesLabel(b.idx) /\ ~baseB.nan /\ baseB.val > 0
           /\ b.score.val = baseB.val

\* C23: with onlySameClass on, every item of the ranking result shares a
\* label with the query, and the result is empty when no catalog item
\* shares a label with the query (as when the query has no labels),
\* whatever the scores are.
C23_OnlySameClass ==
  onlySameClass =>
    \A order \in SortOutcomes(Candidates) :
      /\ \A i \in Shown(scored(order)) : SharesLabel(i)
      /\ (\A i \in Idx : ~SharesLabel(i)) => scored(order) = << >>

\* onlySameClass is on and the result is not empty, while an item that
\* shares no label with the query and whose similarity is at least
\* minScore is left out
C23_Witness ==
  /\ onlySameClass
  /\ Has(queryEmbed)
  /\ \E order \in SortOutcomes(Candidates) : scored(order) # << >>
  /\ \E i \in Idx :
       /\ Has(embeds[i]) /\ ~SharesLabel(i)
       /\ category \in {"All", CategoryOf(i)}
       /\ Reaches([score |-> cosineSimilarity(Val(queryEmbed), Val(embeds[i]))])

\* C24: the ranking result is empty while there is no query vector, and
\* empty while no catalog slot holds a vector; an item whose slot is empty
\* is in no ranking result.
C24_NothingFromNothing ==
  \A order \in SortOutcomes(Candidates) :
    /\ ~Has(queryEmbed) => scored(order) = << >>
    /\ (\A i \in Idx : ~Has(embeds[i])) => scored(order) = << >>
    /\ \A i \in Shown(scored(order)) : Has(embeds[i])

\* a result over a table with empty slots: every filled slot that passes
\* the filters is shown, with nothing held back by minScore or topK
C24_Witness ==
  /\ Has(queryEmbed)
  /\ \E i \in Idx : ~Has(embeds[i]) /\ category \in {"All", CategoryOf(i)}
  /\ minScore = 0
  /\ \E order \in SortOutcomes(Candidates) :
       /\ scored(order) # << >>
       /\ Shown(scored(order)) = {i \in Idx : PassesFilters(i)}

\* ---- the query side, continued
\* C25: a ranking is shown only for the image that is shown: while a query
\* vector is held together with a query image, it is the vector of that
\* image (supplying a new image discards the vector of the previous one).
C25_RankingOfShownImage ==
  (Has(queryEmbed) /\ Has(displayQueryUrl)) =>
    Val(queryEmbed) \in VectorOf(Val(displayQueryUrl))

\* C26: a query status of 'processing' is always followed by 'ready' or
\* 'error', provided every pending fetch, image load, embedding and
\* classification returns or fails.
C26_QueryEndsInState ==
  (statusQuery = "processing") ~> (statusQuery \in {"ready", "error"})

\* a query whose embedding or classification failed has ended in 'error',
\* with nothing left pending
C26_Witness ==
  /\ QueryQuiescent
  /\ \E k \in 1..MaxQueries : run[k] = "failed"
  /\ statusQuery = "error"
  /\ Has(error)

\* ---- the fill, continued
\* C27: when classifyImage of an item fails after the item's embedding
\* succeeded, the item keeps its vector and gets the empty label set.
C27_ClassifyFailureKeepsVector ==
  [][\A f \in Fills : \A idx \in Idx :
       (fill[f].task[idx] = "classify" /\ fill'[f].outcome[idx] = "fail") =>
         /\ Has(fill[f].out[idx])
         /\ fill'[f].out[idx] = fill[f].out[idx]
         /\ fill'[f].outLabels[idx] = << >>]_vars

\* C28: an embedding call that never returns holds back its own item only:
\* while fewer than EMBED_CONCURRENCY calls of a fill hang, every other
\* item that was missing when the fill was invoked is started and settles.
C28_HungCallStallsOnlyItself ==
  \A idx \in Idx :
    (Started(1) /\ idx \in Missing(fill[1].start))
      ~> (Settled(fill[1], idx) \/ idx \in Hung(fill[1]))

\* a fill over more items than EMBED_CONCURRENCY in which one of the first
\* calls hangs and every other item, the last one included, has settled
C28_Witness ==
  \E f \in Fills :
    /\ Cardinality(Missing(fill[f].start)) > EMBED_CONCURRENCY
    /\ Hung(fill[f]) # {}
    /\ \A idx \in Missing(fill[f].start) \ Hung(fill[f]) : Settled(fill[f], idx)
    /\ fill[f].outcome[NItems] = "ok"

\* C29: when an item of a fill settles, the published progress is the
\* number of items of the fill settled so far over the number of items
\* that were missing when the fill was invoked; while the fill runs the
\* published progress never decreases, and it is 1 exactly when all those
\* items have settled.
SettledOf(r) == {idx \in Missing(r.start) : Settled(r, idx)}
C29_ProgressOfFill ==
  [][\A f \in Fills :
       LET r == fill[f]
           rNew == fill'[f]
       IN  /\ SettledOf(rNew) # SettledOf(r) =>
                progress' * Cardinality(Missing(rNew.start))
                  = Cardinality(SettledOf(rNew)) * NItems
           /\ (r.pc = "await" /\ rNew.pc = "await") =>
                /\ progress' >= progress
                /\ progress' = NItems <=> SettledOf(rNew) = Missing(rNew.start)]_vars

\* C30: between two cache clears no slot of the catalog vector table goes
\* from holding a vector back to empty (so it is filled at most once),
\* whatever the order of the startup cache load, the remote load and the
\* steps and completions of fills.
C30_SlotFilledOnce ==
  [][ClearCache \/ \A i \in Idx : Has(embeds[i]) => Has(embeds'[i])]_vars

\* ---- the ranking, continued
\* C31: with a category chosen, every item of the ranking result has that
\* category; with "All", a row is made for every item that has a vector
\* and passes the class filter, whatever its category.
C31_CategoryFilter ==
  Has(queryEmbed) =>
    \A order \in SortOutcomes(Candidates) :
      /\ category # "All" =>
           \A i \in Shown(scored(order)) : CategoryOf(i) = category
      /\ category = "All" =>
           Shown(order) = {i \in Idx : Has(embeds[i]) /\ (onlySameClass => SharesLabel(i))}

\* a category is chosen and the result is not empty, while an item of
\* another category that passes the class filter and reaches minScore is
\* left out
C31_Witness ==
  /\ Has(queryEmbed)
  /\ category # "All"
  /\ \E order \in SortOutcomes(Candidates) : scored(order) # << >>
  /\ \E i \in Idx :
       /\ Has(embeds[i]) /\ CategoryOf(i) # category
       /\ onlySameClass => SharesLabel(i)
       /\ Reaches([score |-> ExpectedScore(i)])

\* C32: when the query vector or an item's vector is a zero vector, the
\* item's base similarity is 0: its score is 0 without the boost and 0.15
\* with it.
ZeroVector(v) == \A j \in 1..Len(v) : v[j] = 0
C32_ZeroVectorScore ==
  Has(queryEmbed) =>
    \A j \in 1..Len(Candidates) :
      LET d == Candidates[j]
      IN  (ZeroVector(Val(queryEmbed)) \/ ZeroVector(Val(embeds[d.idx]))) =>
            /\ ~d.score.nan
            /\ d.score.val = IF preferQueryClass /\ SharesLabel(d.idx) THEN 150 ELSE 0

\* ---- the result messages
\* C33: at most one of the three messages is shown; 'no query yet' is shown
\* exactly when there is no query vector, 'catalog not ready' exactly when
\* there is one and the catalog is not 'ready', and 'no matches' exactly
\* when there is one, the catalog is 'ready' and holds at least one vector,
\* and the ranking is empty.
C33_ThreeMessages ==
  /\ ~(NoQueryShown /\ CatalogNotReadyShown)
  /\ ~(NoQueryShown /\ NoMatchesShown)
  /\ ~(CatalogNotReadyShown /\ NoMatchesShown)
  /\ NoQueryShown <=> queryEmbed = Null
  /\ CatalogNotReadyShown <=> (queryEmbed # Null /\ statusCatalog # "ready")
  /\ NoMatchesShown <=>
       /\ queryEmbed # Null
       /\ statusCatalog = "ready"
       /\ Count(embeds) >= 1
       /\ \A order \in SortOutcomes(Candidates) : scored(order) = << >>

\* ---- starting a fill
\* C34: once there is a query vector while the catalog is 'idle' with
\* neither the cache nor the remote bundle having supplied a vector (and no
\* cache clear behind it), the catalog becomes 'ready' without the compute
\* button being pressed.
C34_FillStartsByItself ==
  (Has(queryEmbed) /\ statusCatalog = "idle" /\ remote = "done" /\ ~cleared)
    ~> (statusCatalog = "ready")

\* ---- the items of one fill
\* C35: within one fill every item that was missing when the fill was
\* invoked is attempted exactly once, in every order of completion: a task
\* starts only for an item that had none, a started task never starts over
\* and its outcome is never replaced, and once no task of the fill is
\* pending every missing item has an outcome.
C35_EachMissingItemOnce ==
  [][\A f \in Fills :
       LET r == fill[f]
           rNew == fill'[f]
       IN  /\ \A idx \in Missing(rNew.start) :
                /\ (rNew.task[idx] = "embed" /\ r.task[idx] # "embed") =>
                     r.task[idx] = "none"
                /\ r.task[idx] # "none" => rNew.task[idx] # "none"
                /\ r.outcome[idx] # "none" => rNew.outcome[idx] = r.outcome[idx]
           /\ (rNew.pc # "none" /\ NoTaskPending(rNew)) =>
                \A idx \in Missing(rNew.start) : rNew.outcome[idx] # "none"]_vars
\* a fill of more items than run at once, in which the last item has been
\* attempted and has settled while the first is still being worked on
C35_Witness ==
  \E f \in Fills :
    /\ Cardinality(Missing(fill[f].start)) > EMBED_CONCURRENCY
    /\ fill[f].task[1] \in {"embed", "classify"}
    /\ fill[f].task[NItems] = "resolved"

\* ---- the compute button
\* C36: whenever the button is on the page, at least one catalog slot holds
\* no vector, the catalog is not 'processing' and no fill has a task
\* pending, 'Compute missing embeddings' is enabled.
C36_MissingCanBeComputed ==
  ( /\ PanelShown
    /\ Missing(embeds) # {}
    /\ statusCatalog # "processing"
    /\ \A f \in Fills : NoTaskPending(fill[f]) )
    => ~ComputeDisabled

\* ---- the query vector and the query labels
\* C37: the query labels a ranking uses are those of the image the query
\* vector was computed from: while a query vector is held, the labels are
\* either still the initial empty list or were derived from that image.
C37_LabelsOfSameImage ==
  Has(queryEmbed) =>
    \/ queryLabelsOf = 0
    \/ Val(queryEmbed) \in VectorOf(queryLabelsOf)
====
